---- MODULE Spec2Model ----
(***************************************************************************)
(* Bid-history ledger of the freelance bid assistant: the bids and         *)
(* prompt_versions tables of bid_history.py and the prompt-template        *)
(* directory that prompt_manager.py syncs into the prompt_versions table.  *)
(*                                                                         *)
(* A handler called by a single caller is one atomic action;              *)
(* update_bid_outcome is also modelled statement by statement, for two     *)
(* callers that share the SQLite file.  Columns that no operation reads    *)
(* back and that carry free text only (titles, urls, names, notes) are not *)
(* part of the state.                                                      *)
(*                                                                         *)
(* The project pipeline is modelled next to it: the seen store of store.py *)
(* as search_jobs.py, analyze_jobs.py and the dashboard's status endpoint  *)
(* write it, the preset's shortlist file, and the dashboard's refresh      *)
(* handler with its _refresh_in_progress flag.                             *)
(***************************************************************************)
EXTENDS Integers, Sequences, FiniteSets, TLC

\* ----- bounds of the model -----
MaxBids == 1
MaxStat == 2
MaxRating == 25
MaxLedger == 2
MaxSample == 3

\* ----- input domains -----
Keys == {"A", "B"}
KeyOrder == <<"A", "B">>
BidKeys == {"A"}
RatingTypes == {"bad", "regular", "good", "winning", "excellent"}
UploadSources == {"my_win", "other_freelancer"}
Texts == {"t1", "t2"}
NULL == "NULL"
Procs == {"p1", "p2"}

VARIABLES pv, files, bids, dbLocked, schema, calls, last,
          seen, shortlist, refresh_in_progress, requests
board == <<seen, shortlist, refresh_in_progress, requests>>
vars == <<pv, files, bids, dbLocked, schema, calls, last, board>>

\* ----- bid_history.py constants -----
RatingBad == 0 - 5
RatingRegular == 0
RatingGood == 5
RatingWinning == 10
UploadRating == 15
UploadRatingOther == 20

RATING_VALUES_Extended ==
  [t \in {"bad", "regular", "good", "winning", "excellent"} |->
     CASE t = "bad" -> RatingBad
       [] t = "regular" -> RatingRegular
       [] t = "good" -> RatingGood
       [] t = "winning" -> RatingWinning
       [] t = "excellent" -> RatingWinning]

RATING_VALUES ==
  [t \in {"bad", "regular", "good", "winning"} |->
     CASE t = "bad" -> RatingBad
       [] t = "regular" -> RatingRegular
       [] t = "good" -> RatingGood
       [] t = "winning" -> RatingWinning]

\* A prompt_versions row as the INSERT of register_prompt_version leaves it:
\* the four counters and success_rate take their column defaults.
\* success_rate is kept as the exact fraction <<numerator, denominator>>.
NewPromptRow(is_active, is_approved) ==
  [is_active |-> is_active, is_approved |-> is_approved,
   total_bids |-> 0, won_bids |-> 0, engaged_bids |-> 0, viewed_bids |-> 0,
   success_rate |-> <<0, 1>>]

\* The record of the call that ran last: operation, arguments that identify
\* its target (flags: the viewed/engaged/won arguments of an outcome update
\* that was applied, or min_rating and limit of a query; text: the final text of a save_final_bid; rows: the ids
\* of the records a query returned, in order), and what it returned
\* ("raised": it ended in an exception).
Call(op, id, key, kind, ret, val) ==
  [op |-> op, id |-> id, key |-> key, kind |-> kind, flags |-> <<>>, text |-> "",
   rows |-> <<>>, ret |-> ret, val |-> val]

Raised(op, id, key, kind) == Call(op, id, key, kind, "raised", 0)

\* ----- schema setup (_get_connection, _ensure_tables) -----

\* The schema as far as setup can change it: which tables exist, and which of
\* the columns added to bids by later releases the bids table has.
Tables == {"bids", "prompt_versions"}
MigratedColumns == {"rating", "is_uploaded", "upload_source", "upload_notes"}
NoSchema == [tables |-> {}, columns |-> {}]
CurrentSchema == [tables |-> Tables, columns |-> MigratedColumns]

\* Stores the program can open: none yet, one written by the release without
\* ratings, one written by the release without uploads, a current one.
SchemaInputs ==
  {NoSchema, [tables |-> Tables, columns |-> {}],
   [tables |-> Tables, columns |-> {"rating"}], CurrentSchema}

\* CREATE TABLE IF NOT EXISTS: a table that exists is left as it is, a new
\* bids table is created with every column.
CreateTablesIfNotExist(s) ==
  [tables |-> Tables,
   columns |-> IF "bids" \in s.tables THEN s.columns ELSE MigratedColumns]

\* ALTER TABLE bids ADD COLUMN c: OperationalError when bids has the column.
AddColumn(s, c) ==
  [schema |-> [s EXCEPT !.columns = @ \cup {c}], error |-> c \in s.columns]

\* The ALTER statements of one try block: the first error ends the block.
RECURSIVE AddColumns(_, _)
AddColumns(s, cs) ==
  IF cs = <<>> THEN [schema |-> s, error |-> FALSE]
  ELSE LET r == AddColumn(s, Head(cs))
       IN IF r.error THEN [schema |-> s, error |-> TRUE]
                     ELSE AddColumns(r.schema, Tail(cs))

EnsureTablesUnguarded(s) ==
  LET s1 == CreateTablesIfNotExist(s)
      r2 == AddColumns(s1, <<"rating">>)
      r3 == AddColumns(r2.schema, <<"is_uploaded", "upload_source", "upload_notes">>)
  IN [schema |-> r3.schema, raised |-> r2.error \/ r3.error]

\* _ensure_tables: both try blocks pass over OperationalError.
EnsureTables(s) ==
  LET s1 == CreateTablesIfNotExist(s)
      r2 == AddColumns(s1, <<"rating">>)
      r3 == AddColumns(r2.schema, <<"is_uploaded", "upload_source", "upload_notes">>)
  IN [schema |-> r3.schema, raised |-> FALSE]

\* _get_connection: every handler opens its connection through schema setup.
GetConnection == schema' = EnsureTables(schema).schema

\* ----- prompt_versions table: statements as functions on the table -----

\* INSERT, or on the UNIQUE conflict the UPDATE of name/description/flags.
RegisterRowsReplacing(t, version_key, is_active, is_approved) ==
  [k \in DOMAIN t \cup {version_key} |->
     IF k = version_key THEN NewPromptRow(is_active, is_approved) ELSE t[k]]

RegisterRows(t, version_key, is_active, is_approved) ==
  IF version_key \in DOMAIN t
    THEN [t EXCEPT ![version_key].is_active = is_active,
                   ![version_key].is_approved = is_approved]
    ELSE [k \in DOMAIN t \cup {version_key} |->
            IF k = version_key THEN NewPromptRow(is_active, is_approved) ELSE t[k]]

SetActiveRowsNoClear(t, version_key) ==
  [k \in DOMAIN t |-> IF k = version_key THEN [t[k] EXCEPT !.is_active = TRUE] ELSE t[k]]

\* UPDATE .. SET is_active = 0; UPDATE .. SET is_active = 1 WHERE version_key = ?
SetActiveRows(t, version_key) ==
  [k \in DOMAIN t |-> [t[k] EXCEPT !.is_active = (k = version_key)]]

ApproveRows(t, version_key) ==
  [k \in DOMAIN t |-> IF k = version_key THEN [t[k] EXCEPT !.is_approved = TRUE] ELSE t[k]]

\* SELECT version_key .. WHERE is_active = 1 LIMIT 1: any active row, else None.
ActiveKeys(t) == {k \in DOMAIN t : t[k].is_active}
get_active_prompt_version(t) == IF ActiveKeys(t) = {} THEN {NULL} ELSE ActiveKeys(t)

IncrementPromptStatAllRows(t, version_key, stat_name) ==
  [k \in DOMAIN t |-> [t[k] EXCEPT ![stat_name] = @ + 1]]

\* UPDATE prompt_versions SET <stat> = <stat> + 1 WHERE version_key = ?
\* (no row matches an unregistered key: nothing changes)
IncrementPromptStat(t, version_key, stat_name) ==
  [k \in DOMAIN t |-> IF k = version_key THEN [t[k] EXCEPT ![stat_name] = @ + 1] ELSE t[k]]

\* min(1.0, (3*won + 2*engaged + viewed) / (3*total)) as a fraction
SuccessRate(row) ==
  LET num == row.won_bids * 3 + row.engaged_bids * 2 + row.viewed_bids
      den == row.total_bids * 3
  IN IF num >= den THEN <<1, 1>> ELSE <<num, den>>

RecalculatePromptSuccessRateUnguarded(t, version_key) ==
  IF version_key \in DOMAIN t
    THEN [t EXCEPT ![version_key].success_rate = SuccessRate(t[version_key])]
    ELSE t

RecalculatePromptSuccessRate(t, version_key) ==
  IF version_key \in DOMAIN t /\ t[version_key].total_bids > 0
    THEN [t EXCEPT ![version_key].success_rate = SuccessRate(t[version_key])]
    ELSE t

\* ----- prompt_manager.py: the template directory -----

\* files[k] is "none" when no template file declares key k, else its Status.
\* Files are read in sorted file-name order.
DiscoverPromptVersions(f) == SelectSeq(KeyOrder, LAMBDA k : f[k] # "none")

RECURSIVE RegisterAll(_, _, _)
RegisterAll(t, versions, f) ==
  IF versions = <<>> THEN t
  ELSE RegisterAll(RegisterRows(t, Head(versions), FALSE, f[Head(versions)] = "approved"),
                   Tail(versions), f)

SyncRows(t, f) ==
  LET versions == DiscoverPromptVersions(f)
      t1 == RegisterAll(t, versions, f)
      approved == SelectSeq(versions, LAMBDA k : f[k] = "approved")
  IN IF ActiveKeys(t1) = {} /\ versions # <<>>
       THEN IF approved # <<>> THEN SetActiveRows(t1, approved[1])
                               ELSE SetActiveRows(t1, versions[1])
       ELSE t1

\* A concurrent update_bid_outcome call that has not started.
IdleCall == [pc |-> "idle", id |-> 0, args |-> <<>>, prev |-> <<>>, base |-> 0,
             row |-> <<>>]

\* ----- actions: prompt versions -----

\* A connection whose first write statement meets the write lock of another
\* connection gets "database is locked" and the handler ends in that exception.
RegisterPromptVersion(version_key, is_active, is_approved) ==
  /\ IF dbLocked
       THEN /\ last' = Raised("register_prompt_version", 0, version_key, "")
            /\ pv' = pv
       ELSE /\ pv' = RegisterRows(pv, version_key, is_active, is_approved)
            /\ last' = Call("register_prompt_version", 0, version_key, "", "True", 0)
  /\ GetConnection
  /\ UNCHANGED <<files, bids, dbLocked, calls>>
  /\ UNCHANGED board

SetActivePromptVersion(version_key) ==
  /\ IF dbLocked
       THEN /\ last' = Raised("set_active_prompt_version", 0, version_key, "")
            /\ pv' = pv
       ELSE /\ pv' = SetActiveRows(pv, version_key)
            /\ last' = Call("set_active_prompt_version", 0, version_key, "", "True", 0)
  /\ GetConnection
  /\ UNCHANGED <<files, bids, dbLocked, calls>>
  /\ UNCHANGED board

ApprovePromptVersion(version_key) ==
  /\ IF dbLocked
       THEN /\ last' = Raised("approve_prompt_version", 0, version_key, "")
            /\ pv' = pv
       ELSE /\ pv' = ApproveRows(pv, version_key)
            /\ last' = Call("approve_prompt_version", 0, version_key, "", "True", 0)
  /\ GetConnection
  /\ UNCHANGED <<files, bids, dbLocked, calls>>
  /\ UNCHANGED board

SyncPromptVersionsToDb ==
  /\ IF dbLocked /\ DiscoverPromptVersions(files) # <<>>
       THEN /\ last' = Raised("sync_prompt_versions_to_db", 0, "", "")
            /\ pv' = pv
       ELSE /\ pv' = SyncRows(pv, files)
            /\ last' = Call("sync_prompt_versions_to_db", 0, "", "", "int",
                            Len(DiscoverPromptVersions(files)))
  /\ GetConnection
  /\ UNCHANGED <<files, bids, dbLocked, calls>>
  /\ UNCHANGED board

\* prompt_manager.set_active_prompt_version: only keys with a template file.
PMSetActivePromptVersion(version_key) ==
  /\ IF files[version_key] = "none"
       THEN /\ last' = Call("pm_set_active_prompt_version", 0, version_key, "", "False", 0)
            /\ pv' = pv
       ELSE IF dbLocked
         THEN /\ last' = Raised("pm_set_active_prompt_version", 0, version_key, "")
              /\ pv' = pv
         ELSE /\ pv' = SetActiveRows(pv, version_key)
              /\ last' = Call("pm_set_active_prompt_version", 0, version_key, "", "True", 0)
  /\ IF files[version_key] = "none" THEN UNCHANGED schema ELSE GetConnection
  /\ UNCHANGED <<files, bids, dbLocked, calls>>
  /\ UNCHANGED board

\* create_prompt_version: writes the template file, then registers the key.
CreatePromptVersion(version_key, status) ==
  /\ files' = [files EXCEPT ![version_key] = status]
  /\ IF dbLocked
       THEN /\ last' = Raised("create_prompt_version", 0, version_key, "")
            /\ pv' = pv
       ELSE /\ pv' = RegisterRows(pv, version_key, FALSE, status = "approved")
            /\ last' = Call("create_prompt_version", 0, version_key, "", "True", 0)
  /\ GetConnection
  /\ UNCHANGED <<bids, dbLocked, calls>>
  /\ UNCHANGED board

\* ----- store.py, search_jobs.py, analyze_jobs.py, dashboard.py: the seen store -----

\* seen: data/seen_projects.json as load_seen returns it, project id -> entry
\* ({} while the file is missing).  An entry keeps its status, whether it has
\* an analysis ("scored", or "fallback" for the rough_score 0 / non-JSON
\* result that may be analysed again) and whether a rejection_reason is stored.
\* shortlist: data/<preset>_shortlist.json, the projects of the last search
\* run that found new ones.
MaxProjects == 3
Projects == 1..MaxProjects
MaxProjectsArgs == {1}
ArchivedStatuses == {"bid_posted", "rejected"}
SkippedStatuses == {"analyzed", "bid_drafted", "bid_sent"}
AnalysisResults == {"scored", "fallback"}
Requests == {"r1", "r2"}

\* The filtered result list of one search run: up to two projects, repeats
\* (the same project on two result pages) included.
SearchResults ==
  {<<>>} \cup {<<p>> : p \in Projects} \cup {<<p, q>> : p \in Projects, q \in Projects}

\* seen.get(key) or {}
ExistingEntry(s, id) ==
  IF id \in DOMAIN s THEN s[id]
  ELSE [status |-> NULL, analysis |-> NULL, rejection_reason |-> FALSE]

SeenOnlyEntry == [status |-> "seen_only", analysis |-> NULL, rejection_reason |-> FALSE]

AnalyzedEntry(ai_result) ==
  [status |-> "analyzed", analysis |-> ai_result, rejection_reason |-> FALSE]

PutEntry(s, id, entry) ==
  [k \in DOMAIN s \cup {id} |-> IF k = id THEN entry ELSE s[k]]

\* search_jobs.main, the loop over the filtered projects: a project whose id is
\* a key of seen is skipped, any other is appended to new_projects and
\* recorded as seen_only.
RECURSIVE SearchLoop(_, _, _)
SearchLoopShortlistsSeen(s, filtered, new_projects) ==
  IF filtered = <<>> THEN [seen |-> s, new_projects |-> new_projects]
  ELSE SearchLoop(PutEntry(s, Head(filtered), SeenOnlyEntry), Tail(filtered),
                  Append(new_projects, Head(filtered)))

SearchLoop(s, filtered, new_projects) ==
  IF filtered = <<>> THEN [seen |-> s, new_projects |-> new_projects]
  ELSE IF Head(filtered) \in DOMAIN s
    THEN SearchLoop(s, Tail(filtered), new_projects)
    ELSE SearchLoop(PutEntry(s, Head(filtered), SeenOnlyEntry), Tail(filtered),
                    Append(new_projects, Head(filtered)))

\* The shortlist file is written only when an output path is given and the run
\* found new projects.
WriteShortlist(file, output_json, new_projects) ==
  IF output_json /\ new_projects # <<>>
    THEN [exists |-> TRUE, projects |-> new_projects]
    ELSE file

\* analyze_jobs.main, the loop over the shortlist: stops at max_projects
\* analysed projects, skips a project with a prior successful analysis, and
\* replaces the entry of every other project.
RECURSIVE AnalyzeLoop(_, _, _, _, _)
AnalyzeLoop(s, projects, count, max_projects, ai_result) ==
  IF projects = <<>> \/ count >= max_projects THEN [seen |-> s, count |-> count]
  ELSE LET existing == ExistingEntry(s, Head(projects))
       IN IF existing.status \in SkippedStatuses /\ existing.analysis # "fallback"
            THEN AnalyzeLoop(s, Tail(projects), count, max_projects, ai_result)
            ELSE AnalyzeLoop(PutEntry(s, Head(projects), AnalyzedEntry(ai_result)),
                             Tail(projects), count + 1, max_projects, ai_result)

\* A caller blocked in the refresh handler, or none.
HandlerRunning == \E r \in Requests : requests[r].pc \in {"search", "analyze"}

IdleRequest == [pc |-> "idle", arrived_in_progress |-> FALSE]

BoardInit ==
  /\ seen = [k \in {} |-> SeenOnlyEntry]
  /\ shortlist = [exists |-> FALSE, projects |-> <<>>]
  /\ refresh_in_progress = FALSE
  /\ requests = [r \in Requests |-> IdleRequest]

\* ----- initial state: no database file yet, empty template directory -----
Init ==
  /\ pv = [k \in {} |-> NewPromptRow(FALSE, FALSE)]
  /\ files = [k \in Keys |-> "none"]
  /\ bids = <<>>
  /\ dbLocked = FALSE
  /\ schema = NoSchema
  /\ calls = [p \in Procs |-> IdleCall]
  /\ last = Call("init", 0, "", "", "", 0)
  /\ BoardInit

NextPrompt ==
  \/ \E k \in Keys, a \in BOOLEAN, p \in BOOLEAN : RegisterPromptVersion(k, a, p)
  \/ \E k \in Keys : SetActivePromptVersion(k)
  \/ \E k \in Keys : ApprovePromptVersion(k)
  \/ SyncPromptVersionsToDb
  \/ \E k \in Keys : PMSetActivePromptVersion(k)
  \/ \E k \in Keys, s \in {"testing", "approved"} : CreatePromptVersion(k, s)

SpecPrompt == Init /\ [][NextPrompt]_vars

\* ----- bids table -----

\* The row save_bid inserts: the columns the INSERT does not name take their
\* defaults (outcome 'pending', flags 0, rating 0, is_uploaded 0, the rest NULL).
NewBidRowWithoutDefaults(prompt_version, bid_text) ==
  [prompt_version |-> prompt_version, bid_text |-> bid_text,
   outcome |-> NULL,
   was_viewed |-> FALSE, was_engaged |-> FALSE, was_won |-> FALSE,
   was_high_rank |-> FALSE,
   rating |-> 0,
   is_uploaded |-> FALSE, upload_source |-> NULL,
   final_bid_text |-> NULL, user_edits |-> <<>>, feedback_notes |-> NULL]

NewBidRow(prompt_version, bid_text) ==
  [prompt_version |-> prompt_version, bid_text |-> bid_text,
   outcome |-> "pending",
   was_viewed |-> FALSE, was_engaged |-> FALSE, was_won |-> FALSE,
   was_high_rank |-> FALSE,
   rating |-> 0,
   is_uploaded |-> FALSE, upload_source |-> NULL,
   final_bid_text |-> NULL, user_edits |-> <<>>, feedback_notes |-> NULL]

UploadedRatingOwnWinOnly(upload_source) ==
  IF upload_source = "my_win" THEN UploadRating ELSE UploadRatingOther

UploadedRatingOffGrid(upload_source) ==
  IF upload_source = "other_freelancer" THEN UploadRatingOther ELSE UploadRating - 3

\* The rating save_uploaded_bid assigns by provenance.
UploadedRating(upload_source) ==
  IF upload_source = "other_freelancer" THEN UploadRatingOther ELSE UploadRating

UploadedBidRow(upload_source, bid_text) ==
  [NewBidRow("uploaded", bid_text) EXCEPT
     !.outcome = "won", !.rating = UploadedRating(upload_source), !.was_won = TRUE,
     !.is_uploaded = TRUE, !.upload_source = upload_source]

\* SQLite admits one writer: a write statement on a second connection succeeds
\* only if no other connection holds an uncommitted write.
SecondConnectionCanWrite(otherHoldsUncommittedWrite) == ~otherHoldsUncommittedWrite

\* The counters update_bid_outcome increments: new flag true, previous false.
OutcomeStats(row, was_viewed, was_engaged, was_won) ==
  {s \in {"viewed_bids", "engaged_bids", "won_bids"} :
     \/ s = "viewed_bids" /\ was_viewed /\ ~row.was_viewed
     \/ s = "engaged_bids" /\ was_engaged /\ ~row.was_engaged
     \/ s = "won_bids" /\ was_won /\ ~row.was_won}

OutcomeRowsIgnorePrevious(t, row, was_viewed, was_engaged, was_won) ==
  LET k == row.prompt_version
      t1 == IF was_viewed THEN IncrementPromptStat(t, k, "viewed_bids") ELSE t
      t2 == IF was_engaged THEN IncrementPromptStat(t1, k, "engaged_bids") ELSE t1
      t3 == IF was_won THEN IncrementPromptStat(t2, k, "won_bids") ELSE t2
  IN RecalculatePromptSuccessRate(t3, k)

AdjustPromptStat(t, version_key, stat_name, new, prev) ==
  [k \in DOMAIN t |->
     IF k = version_key
       THEN [t[k] EXCEPT ![stat_name] =
               IF new /\ ~prev THEN @ + 1 ELSE IF prev /\ ~new THEN @ - 1 ELSE @]
       ELSE t[k]]

OutcomeRowsWithDecrement(t, row, was_viewed, was_engaged, was_won) ==
  LET k == row.prompt_version
      t1 == AdjustPromptStat(t, k, "viewed_bids", was_viewed, row.was_viewed)
      t2 == AdjustPromptStat(t1, k, "engaged_bids", was_engaged, row.was_engaged)
      t3 == AdjustPromptStat(t2, k, "won_bids", was_won, row.was_won)
  IN RecalculatePromptSuccessRate(t3, k)

OutcomeRows(t, row, was_viewed, was_engaged, was_won) ==
  LET k == row.prompt_version
      t1 == IF was_viewed /\ ~row.was_viewed THEN IncrementPromptStat(t, k, "viewed_bids") ELSE t
      t2 == IF was_engaged /\ ~row.was_engaged THEN IncrementPromptStat(t1, k, "engaged_bids") ELSE t1
      t3 == IF was_won /\ ~row.was_won THEN IncrementPromptStat(t2, k, "won_bids") ELSE t2
  IN RecalculatePromptSuccessRate(t3, k)

\* ----- actions: bids -----

SaveBidWithin(limit, prompt_version, bid_text) ==
  /\ Len(bids) < limit
  /\ IF dbLocked
       THEN /\ last' = Raised("save_bid", 0, prompt_version, "")
            /\ UNCHANGED <<bids, pv>>
       ELSE /\ bids' = Append(bids, NewBidRow(prompt_version, bid_text))
            /\ pv' = IncrementPromptStat(pv, prompt_version, "total_bids")
            /\ last' = Call("save_bid", Len(bids) + 1, prompt_version, "", "int", Len(bids) + 1)
  /\ GetConnection
  /\ UNCHANGED <<files, dbLocked, calls>>
  /\ UNCHANGED board

SaveBid(prompt_version, bid_text) == SaveBidWithin(MaxBids, prompt_version, bid_text)

SaveUploadedBidWithin(limit, upload_source, bid_text) ==
  /\ Len(bids) < limit
  /\ IF dbLocked
       THEN /\ last' = Raised("save_uploaded_bid", 0, "", upload_source)
            /\ UNCHANGED bids
       ELSE /\ bids' = Append(bids, UploadedBidRow(upload_source, bid_text))
            /\ last' = Call("save_uploaded_bid", Len(bids) + 1, "", upload_source, "int",
                            Len(bids) + 1)
  /\ GetConnection
  /\ UNCHANGED <<pv, files, dbLocked, calls>>
  /\ UNCHANGED board

SaveUploadedBid(upload_source, bid_text) ==
  SaveUploadedBidWithin(MaxBids, upload_source, bid_text)

UpdateBidOutcome(bid_id, outcome, was_viewed, was_engaged, was_won, was_high_rank) ==
  /\ IF bid_id \notin DOMAIN bids
       THEN /\ last' = Call("update_bid_outcome", bid_id, "", "", "False", 0)
            /\ UNCHANGED <<bids, pv>>
       ELSE IF dbLocked
         THEN /\ last' = Raised("update_bid_outcome", bid_id, "", "")
              /\ UNCHANGED <<bids, pv>>
         ELSE /\ \A s \in OutcomeStats(bids[bid_id], was_viewed, was_engaged, was_won) :
                   bids[bid_id].prompt_version \in DOMAIN pv
                     => pv[bids[bid_id].prompt_version][s] < MaxStat
              /\ bids' = [bids EXCEPT ![bid_id].outcome = outcome,
                                      ![bid_id].was_viewed = was_viewed,
                                      ![bid_id].was_engaged = was_engaged,
                                      ![bid_id].was_won = was_won,
                                      ![bid_id].was_high_rank = was_high_rank]
              /\ pv' = OutcomeRows(pv, bids[bid_id], was_viewed, was_engaged, was_won)
              /\ last' = [Call("update_bid_outcome", bid_id, "", "", "True", 0)
                            EXCEPT !.flags = <<was_viewed, was_engaged, was_won>>]
  /\ GetConnection
  /\ UNCHANGED <<files, dbLocked, calls>>
  /\ UNCHANGED board

\* get_bid: SELECT by id; the row, or None.
GetBid(bid_id) ==
  /\ last' = IF EnsureTables(schema).raised
               THEN Raised("get_bid", bid_id, "", "")
               ELSE Call("get_bid", bid_id, "", "",
                         IF bid_id \in DOMAIN bids THEN "row" ELSE "None", 0)
  /\ GetConnection
  /\ UNCHANGED <<pv, files, bids, dbLocked, calls>>
  /\ UNCHANGED board

SaveFinalBidUnchecked(bid_id, final_text, feedback) ==
  /\ IF dbLocked
       THEN /\ last' = Raised("save_final_bid", bid_id, "", "")
            /\ UNCHANGED bids
       ELSE /\ bids' = [i \in DOMAIN bids |->
                          IF i = bid_id
                            THEN [bids[i] EXCEPT
                                    !.final_bid_text = final_text,
                                    !.user_edits =
                                       IF bids[i].bid_text # final_text
                                         THEN <<bids[i].bid_text, final_text>> ELSE <<>>,
                                    !.feedback_notes = feedback]
                            ELSE bids[i]]
            /\ last' = [Call("save_final_bid", bid_id, "", "", "True", 0)
                          EXCEPT !.text = final_text]
  /\ GetConnection
  /\ UNCHANGED <<pv, files, dbLocked, calls>>
  /\ UNCHANGED board

SaveFinalBidDiffAgainstLastFinal(bid_id, final_text, feedback) ==
  /\ IF bid_id \notin DOMAIN bids
       THEN /\ last' = Call("save_final_bid", bid_id, "", "", "False", 0)
            /\ UNCHANGED bids
       ELSE IF dbLocked
         THEN /\ last' = Raised("save_final_bid", bid_id, "", "")
              /\ UNCHANGED bids
         ELSE LET original == IF bids[bid_id].final_bid_text = NULL
                                THEN bids[bid_id].bid_text
                                ELSE bids[bid_id].final_bid_text
              IN /\ bids' = [bids EXCEPT
                       ![bid_id].final_bid_text = final_text,
                       ![bid_id].user_edits =
                          IF original # final_text
                            THEN <<original, final_text>> ELSE <<>>,
                       ![bid_id].feedback_notes = feedback]
                 /\ last' = [Call("save_final_bid", bid_id, "", "", "True", 0)
                               EXCEPT !.text = final_text]
  /\ GetConnection
  /\ UNCHANGED <<pv, files, dbLocked, calls>>
  /\ UNCHANGED board

SaveFinalBid(bid_id, final_text, feedback) ==
  /\ IF bid_id \notin DOMAIN bids
       THEN /\ last' = Call("save_final_bid", bid_id, "", "", "False", 0)
            /\ UNCHANGED bids
       ELSE IF dbLocked
         THEN /\ last' = Raised("save_final_bid", bid_id, "", "")
              /\ UNCHANGED bids
         ELSE /\ bids' = [bids EXCEPT
                   ![bid_id].final_bid_text = final_text,
                   ![bid_id].user_edits =
                      IF bids[bid_id].bid_text # final_text
                        THEN <<bids[bid_id].bid_text, final_text>> ELSE <<>>,
                   ![bid_id].feedback_notes = feedback]
              /\ last' = [Call("save_final_bid", bid_id, "", "", "True", 0)
                            EXCEPT !.text = final_text]
  /\ GetConnection
  /\ UNCHANGED <<pv, files, dbLocked, calls>>
  /\ UNCHANGED board

\* rate_bid.  In the 'winning' branch the UPDATE of the bid is still
\* uncommitted on the handler's connection when _increment_prompt_stat opens
\* its own connection and writes: that write is refused, the exception leaves
\* rate_bid before conn.commit(), and the abandoned connection keeps the write
\* lock (and its uncommitted UPDATE) until it is garbage-collected.
RateBid(bid_id, rating_type) ==
  /\ IF rating_type \notin DOMAIN RATING_VALUES
       THEN /\ last' = Call("rate_bid", bid_id, "", rating_type, "None", 0)
            /\ UNCHANGED <<bids, pv, dbLocked>>
       ELSE IF bid_id \notin DOMAIN bids
         THEN /\ last' = Call("rate_bid", bid_id, "", rating_type, "None", 0)
              /\ UNCHANGED <<bids, pv, dbLocked>>
         ELSE IF dbLocked
           THEN /\ last' = Raised("rate_bid", bid_id, "", rating_type)
                /\ UNCHANGED <<bids, pv, dbLocked>>
           ELSE IF rating_type = "winning"
             THEN LET new_rating == bids[bid_id].rating + RATING_VALUES["winning"]
                      k == bids[bid_id].prompt_version
                  IN /\ new_rating <= MaxRating
                     /\ IF ~bids[bid_id].was_won /\ ~SecondConnectionCanWrite(TRUE)
                          THEN /\ last' = Raised("rate_bid", bid_id, "", rating_type)
                               /\ dbLocked' = TRUE
                               /\ UNCHANGED <<bids, pv>>
                          ELSE /\ bids' = [bids EXCEPT ![bid_id].rating = new_rating,
                                                       ![bid_id].was_won = TRUE]
                               /\ pv' = IF ~bids[bid_id].was_won
                                          THEN RecalculatePromptSuccessRate(
                                                 IncrementPromptStat(pv, k, "won_bids"), k)
                                          ELSE pv
                               /\ last' = Call("rate_bid", bid_id, "", rating_type, "int", new_rating)
                               /\ UNCHANGED dbLocked
             ELSE /\ bids' = [bids EXCEPT ![bid_id].rating = RATING_VALUES[rating_type]]
                  /\ last' = Call("rate_bid", bid_id, "", rating_type, "int",
                                  RATING_VALUES[rating_type])
                  /\ UNCHANGED <<pv, dbLocked>>
  /\ IF rating_type \notin DOMAIN RATING_VALUES THEN UNCHANGED schema ELSE GetConnection
  /\ UNCHANGED <<files, calls>>
  /\ UNCHANGED board

\* The interpreter's collector closes an abandoned connection: its
\* uncommitted statements are rolled back and the write lock is released.
CollectAbandonedConnection ==
  /\ dbLocked
  /\ dbLocked' = FALSE
  /\ UNCHANGED <<pv, files, bids, schema, calls, last>>
  /\ UNCHANGED board

\* Arguments of update_bid_outcome as its callers pass them: the API default
\* (outcome 'pending', every flag false) and one labelled call per flag triple.
OutcomeLabel(v, e, w) ==
  IF w THEN "won" ELSE IF e THEN "engaged" ELSE IF v THEN "viewed" ELSE "pending"

OutcomeInputs ==
  {<<OutcomeLabel(v, e, w), v, e, w>> : v \in BOOLEAN, e \in BOOLEAN, w \in BOOLEAN}

WonInputs == {<<"pending", FALSE, FALSE, FALSE>>, <<"won", FALSE, FALSE, TRUE>>}

\* An id that exists, or the first id that does not.
IdInputs == 1..(Len(bids) + 1)

\* Outcome tracking: bids are created and their funnel flags updated.
NextOutcome ==
  \/ \E k \in BidKeys : SaveBid(k, "t1")
  \/ \E i \in IdInputs, a \in OutcomeInputs : UpdateBidOutcome(i, a[1], a[2], a[3], a[4], FALSE)
  \/ \E k \in Keys : RegisterPromptVersion(k, FALSE, FALSE)

SpecOutcome == Init /\ [][NextOutcome]_vars

\* Rating: bids are created or imported, rated, and marked won or not won.
NextRating ==
  \/ \E k \in BidKeys : SaveBid(k, "t1")
  \/ \E u \in UploadSources : SaveUploadedBid(u, "t1")
  \/ \E i \in IdInputs, a \in WonInputs : UpdateBidOutcome(i, a[1], a[2], a[3], a[4], FALSE)
  \/ \E i \in IdInputs, r \in RatingTypes : RateBid(i, r)
  \/ \E k \in BidKeys : RegisterPromptVersion(k, FALSE, FALSE)
  \/ CollectAbandonedConnection

SpecRating == Init /\ [][NextRating]_vars

\* Winning ratings over a ledger of up to MaxLedger bids: bids are created,
\* marked won or not won, and rated 'winning'.
NextWinning ==
  \/ \E k \in BidKeys : SaveBidWithin(MaxLedger, k, "t1")
  \/ \E i \in IdInputs, a \in WonInputs : UpdateBidOutcome(i, a[1], a[2], a[3], a[4], FALSE)
  \/ \E i \in IdInputs : RateBid(i, "winning")
  \/ \E k \in BidKeys : RegisterPromptVersion(k, FALSE, FALSE)
  \/ CollectAbandonedConnection

SpecWinning == Init /\ [][NextWinning]_vars

\* A store as the program may find it: any schema an earlier release left,
\* no rows.
InitStore ==
  /\ pv = [k \in {} |-> NewPromptRow(FALSE, FALSE)]
  /\ files = [k \in Keys |-> "none"]
  /\ bids = <<>>
  /\ dbLocked = FALSE
  /\ schema \in SchemaInputs
  /\ calls = [p \in Procs |-> IdleCall]
  /\ last = Call("init", 0, "", "", "", 0)
  /\ BoardInit

\* Records: bids are created, read, edited into their final text, marked won
\* and rated; a 'winning' rating can leave the store write-locked.
NextRecord ==
  \/ \E k \in BidKeys, t \in Texts : SaveBid(k, t)
  \/ \E i \in IdInputs : GetBid(i)
  \/ \E i \in IdInputs, t \in Texts : SaveFinalBid(i, t, "note")
  \/ \E i \in IdInputs : UpdateBidOutcome(i, "won", FALSE, FALSE, TRUE, FALSE)
  \/ \E i \in IdInputs : RateBid(i, "winning")
  \/ \E k \in BidKeys : RegisterPromptVersion(k, FALSE, FALSE)
  \/ CollectAbandonedConnection

SpecRecord == InitStore /\ [][NextRecord]_vars

\* Imports: proven bids are uploaded with each documented provenance, read
\* and rated.
DocumentedUploadSources == UploadSources \cup {"liked"}

NextUpload ==
  \/ \E u \in DocumentedUploadSources : SaveUploadedBidWithin(MaxLedger, u, "t1")
  \/ \E i \in IdInputs : GetBid(i)
  \/ \E i \in IdInputs, r \in {"good", "winning"} : RateBid(i, r)

SpecUpload == Init /\ [][NextUpload]_vars

\* ----- update_bid_outcome, statement by statement -----
\* Two callers (processes sharing the SQLite file) run update_bid_outcome at
\* the same time.  Every statement commits on its own, so the steps of one
\* call interleave with the steps of the other: the SELECT of the previous
\* flags, the UPDATE of the bid, one increment per counter, and the SELECT
\* and the UPDATE of the recomputation.

\* What the call does after the step it is at.
AfterStep(pc) ==
  CASE pc = "read" -> "viewed_bids"
    [] pc = "viewed_bids" -> "engaged_bids"
    [] pc = "engaged_bids" -> "won_bids"
    [] pc = "won_bids" -> "recalculate"

\* conn = _get_connection(); SELECT prompt_version, was_viewed, was_engaged,
\* was_won: the call keeps what it read (base: won_bids of the version then,
\* -1 when the version is not registered).
CallReadPrevious(p, bid_id, a) ==
  /\ calls[p].pc = "idle"
  /\ IF bid_id \notin DOMAIN bids
       THEN /\ calls' = [calls EXCEPT ![p].pc = "done", ![p].id = bid_id]
            /\ last' = Call("update_bid_outcome", bid_id, "", "", "False", 0)
       ELSE /\ calls' = [calls EXCEPT
                 ![p] = [pc |-> "read", id |-> bid_id, args |-> a,
                         prev |-> <<bids[bid_id].prompt_version, bids[bid_id].was_viewed,
                                    bids[bid_id].was_engaged, bids[bid_id].was_won>>,
                         base |-> IF bids[bid_id].prompt_version \in DOMAIN pv
                                    THEN pv[bids[bid_id].prompt_version].won_bids
                                    ELSE 0 - 1,
                         row |-> <<>>]]
            /\ UNCHANGED last
  /\ GetConnection
  /\ UNCHANGED <<pv, files, bids, dbLocked>>
  /\ UNCHANGED board

\* UPDATE bids SET outcome, was_viewed, was_engaged, was_won, was_high_rank;
\* commit; close.
CallWriteRecord(p) ==
  /\ calls[p].pc = "read"
  /\ IF dbLocked
       THEN /\ calls' = [calls EXCEPT ![p].pc = "done"]
            /\ last' = Raised("update_bid_outcome", calls[p].id, "", "")
            /\ UNCHANGED bids
       ELSE /\ bids' = [bids EXCEPT ![calls[p].id].outcome = calls[p].args[1],
                                    ![calls[p].id].was_viewed = calls[p].args[2],
                                    ![calls[p].id].was_engaged = calls[p].args[3],
                                    ![calls[p].id].was_won = calls[p].args[4],
                                    ![calls[p].id].was_high_rank = FALSE]
            /\ calls' = [calls EXCEPT ![p].pc = AfterStep("read")]
            /\ UNCHANGED last
  /\ UNCHANGED <<pv, files, dbLocked, schema>>
  /\ UNCHANGED board

\* if <flag> and not prev_<flag>: _increment_prompt_stat(prompt_version, <stat>)
\* with the previous flags the call read at its start.
CallIncrement(p) ==
  /\ calls[p].pc \in {"viewed_bids", "engaged_bids", "won_bids"}
  /\ LET s == calls[p].pc
         k == calls[p].prev[1]
         n == CASE s = "viewed_bids" -> 2 [] s = "engaged_bids" -> 3 [] s = "won_bids" -> 4
     IN IF calls[p].args[n] /\ ~calls[p].prev[n]
          THEN /\ k \in DOMAIN pv => pv[k][s] < MaxStat
               /\ IF dbLocked
                    THEN /\ calls' = [calls EXCEPT ![p].pc = "done"]
                         /\ last' = Raised("update_bid_outcome", calls[p].id, "", "")
                         /\ UNCHANGED pv
                    ELSE /\ pv' = IncrementPromptStat(pv, k, s)
                         /\ calls' = [calls EXCEPT ![p].pc = AfterStep(s)]
                         /\ UNCHANGED last
               /\ GetConnection
          ELSE /\ calls' = [calls EXCEPT ![p].pc = AfterStep(s)]
               /\ UNCHANGED <<pv, last, schema>>
  /\ UNCHANGED <<files, bids, dbLocked>>
  /\ UNCHANGED board

\* _recalculate_prompt_success_rate: SELECT the four counters; without a row
\* or with total_bids = 0 the call is over.
CallRecalculateRead(p) ==
  /\ calls[p].pc = "recalculate"
  /\ LET k == calls[p].prev[1]
     IN IF k \in DOMAIN pv /\ pv[k].total_bids > 0
          THEN /\ calls' = [calls EXCEPT ![p].pc = "store", ![p].row = pv[k]]
               /\ UNCHANGED last
          ELSE /\ calls' = [calls EXCEPT ![p].pc = "done"]
               /\ last' = [Call("update_bid_outcome", calls[p].id, "", "", "True", 0)
                             EXCEPT !.flags = SubSeq(calls[p].args, 2, 4)]
  /\ GetConnection
  /\ UNCHANGED <<pv, files, bids, dbLocked>>
  /\ UNCHANGED board

\* UPDATE prompt_versions SET success_rate = <computed from the row read>;
\* commit; close; return True.
CallRecalculateStore(p) ==
  /\ calls[p].pc = "store"
  /\ IF dbLocked
       THEN /\ last' = Raised("update_bid_outcome", calls[p].id, "", "")
            /\ UNCHANGED pv
       ELSE /\ pv' = [k \in DOMAIN pv |->
                        IF k = calls[p].prev[1]
                          THEN [pv[k] EXCEPT !.success_rate = SuccessRate(calls[p].row)]
                          ELSE pv[k]]
            /\ last' = [Call("update_bid_outcome", calls[p].id, "", "", "True", 0)
                          EXCEPT !.flags = SubSeq(calls[p].args, 2, 4)]
  /\ calls' = [calls EXCEPT ![p].pc = "done"]
  /\ UNCHANGED <<files, bids, dbLocked, schema>>
  /\ UNCHANGED board

\* Arguments of the concurrent calls: every one marks the bid won.
ConcurrentInputs == {<<"won", FALSE, FALSE, TRUE>>, <<"won", TRUE, TRUE, TRUE>>}

\* One bid is created and two callers update its outcome at the same time.
NextConcurrent ==
  \/ \E k \in BidKeys : SaveBid(k, "t1")
  \/ \E k \in BidKeys : RegisterPromptVersion(k, FALSE, FALSE)
  \/ \E p \in Procs, i \in IdInputs, a \in ConcurrentInputs : CallReadPrevious(p, i, a)
  \/ \E p \in Procs : CallWriteRecord(p)
  \/ \E p \in Procs : CallIncrement(p)
  \/ \E p \in Procs : CallRecalculateRead(p)
  \/ \E p \in Procs : CallRecalculateStore(p)

SpecConcurrent == Init /\ [][NextConcurrent]_vars

\* ----- high-rated queries -----

\* created_at is the clock reading at the INSERT: a later insert (a higher
\* id) has a later creation time.
CreatedAt(bid_id) == bid_id

PrecedesByRatingAndTime(t, i, j) ==
  \/ t[i].rating > t[j].rating
  \/ t[i].rating = t[j].rating /\ CreatedAt(i) > CreatedAt(j)

\* ORDER BY rating DESC, was_won DESC, created_at DESC
Precedes(t, i, j) ==
  \/ t[i].rating > t[j].rating
  \/ t[i].rating = t[j].rating /\ t[i].was_won /\ ~t[j].was_won
  \/ /\ t[i].rating = t[j].rating /\ t[i].was_won = t[j].was_won
     /\ CreatedAt(i) > CreatedAt(j)

RECURSIVE OrderRows(_, _)
OrderRows(t, ids) ==
  IF ids = {} THEN <<>>
  ELSE LET first == CHOOSE i \in ids : \A j \in ids \ {i} : Precedes(t, i, j)
       IN <<first>> \o OrderRows(t, ids \ {first})

\* SELECT * FROM bids WHERE rating >= ? ORDER BY .. LIMIT ?  (ids of the rows)
HighRatedRows(t, min_rating, limit) ==
  LET ordered == OrderRows(t, {i \in DOMAIN t : t[i].rating >= min_rating})
  IN SubSeq(ordered, 1, IF limit < Len(ordered) THEN limit ELSE Len(ordered))

GetHighRatedBids(min_rating, limit) ==
  /\ last' = [Call("get_high_rated_bids", 0, "", "", "list", 0)
                EXCEPT !.flags = <<min_rating, limit>>,
                       !.rows = HighRatedRows(bids, min_rating, limit)]
  /\ GetConnection
  /\ UNCHANGED <<pv, files, bids, dbLocked, calls>>
  /\ UNCHANGED board

\* Learning context: bids are created, rated, marked won, and the high-rated
\* ones are queried.
NextQuery ==
  \/ \E k \in BidKeys : SaveBidWithin(MaxLedger, k, "t1")
  \/ \E i \in IdInputs, r \in {"bad", "good"} : RateBid(i, r)
  \/ \E i \in IdInputs : UpdateBidOutcome(i, "won", FALSE, FALSE, TRUE, FALSE)
  \/ \E m \in {RatingRegular, RatingGood}, l \in 0..MaxLedger : GetHighRatedBids(m, l)

SpecQuery == Init /\ [][NextQuery]_vars

\* Prompt versions with statistics: bids are created and marked won while the
\* prompt-version operations run.
NextStatistics ==
  \/ \E k \in BidKeys : SaveBid(k, "t1")
  \/ \E i \in IdInputs, a \in WonInputs : UpdateBidOutcome(i, a[1], a[2], a[3], a[4], FALSE)
  \/ \E k \in Keys, a \in BOOLEAN, p \in BOOLEAN : RegisterPromptVersion(k, a, p)
  \/ \E k \in Keys : SetActivePromptVersion(k)
  \/ \E k \in Keys : ApprovePromptVersion(k)
  \/ SyncPromptVersionsToDb
  \/ \E k \in Keys, s \in {"testing", "approved"} : CreatePromptVersion(k, s)

SpecStatistics == Init /\ [][NextStatistics]_vars

\* ----- learning statistics -----

RECURSIVE SeqSum(_)
SeqSum(s) == IF s = <<>> THEN 0 ELSE Head(s) + SeqSum(Tail(s))

\* The ratings AVG(rating) .. WHERE rating != 0 averages.
NonZeroRatings(t) ==
  SelectSeq([i \in DOMAIN t |-> t[i].rating], LAMBDA r : r # 0)

RoundTenthsTruncating(num, den) == (10 * num) \div den

\* round(num / den, 1) in tenths: the nearest tenth, a tie going to the even one.
RoundTenths(num, den) ==
  LET q == (10 * num) \div den
      r == 10 * num - q * den
  IN IF 2 * r < den THEN q
     ELSE IF 2 * r > den THEN q + 1
     ELSE IF q % 2 = 0 THEN q ELSE q + 1

\* avg_rating of get_learning_stats, in tenths: `AVG(..) or 0`, then round(.., 1).
AvgRatingTenths(t) ==
  LET rs == NonZeroRatings(t)
  IN IF rs = <<>> THEN 0 ELSE RoundTenths(SeqSum(rs), Len(rs))

GetLearningStats ==
  /\ last' = Call("get_learning_stats", 0, "", "", "dict", AvgRatingTenths(bids))
  /\ GetConnection
  /\ UNCHANGED <<pv, files, bids, dbLocked, calls>>
  /\ UNCHANGED board

\* Learning statistics: bids are created or imported, rated, and the
\* statistics are read.
NextLearning ==
  \/ \E k \in BidKeys : SaveBidWithin(MaxSample, k, "t1")
  \/ SaveUploadedBidWithin(MaxSample, "my_win", "t1")
  \/ \E i \in IdInputs, r \in {"bad", "regular", "good"} : RateBid(i, r)
  \/ GetLearningStats

SpecLearning == Init /\ [][NextLearning]_vars

\* Two bids of one prompt version: bids are created and marked won or not won.
NextPair ==
  \/ \E k \in BidKeys : SaveBidWithin(MaxLedger, k, "t1")
  \/ \E i \in IdInputs, a \in OutcomeInputs : UpdateBidOutcome(i, a[1], a[2], a[3], a[4], FALSE)
  \/ \E k \in BidKeys : RegisterPromptVersion(k, FALSE, FALSE)

SpecPair == Init /\ [][NextPair]_vars

\* ----- prompt_manager.py: readers that synchronise first -----

\* prompt_manager.get_prompt_versions: sync, then the rows of the table.
PMGetPromptVersions ==
  /\ IF dbLocked /\ DiscoverPromptVersions(files) # <<>>
       THEN /\ last' = Raised("pm_get_prompt_versions", 0, "", "")
            /\ pv' = pv
       ELSE /\ pv' = SyncRows(pv, files)
            /\ last' = Call("pm_get_prompt_versions", 0, "", "", "list",
                            Cardinality(DOMAIN SyncRows(pv, files)))
  /\ GetConnection
  /\ UNCHANGED <<files, bids, dbLocked, calls>>
  /\ UNCHANGED board

\* The key load_active_prompt returns for the active key it read: that key when
\* its template file is found, else "legacy" or "fallback" (whether the legacy
\* prompt file exists is the installation's matter).
LoadedPromptKeys(active_key, f) ==
  IF active_key # NULL /\ active_key \in DOMAIN f /\ f[active_key] # "none"
    THEN {active_key}
    ELSE {"legacy", "fallback"}

\* load_active_prompt: sync, read the active key, load its template.
LoadActivePrompt ==
  /\ IF dbLocked /\ DiscoverPromptVersions(files) # <<>>
       THEN /\ last' = Raised("load_active_prompt", 0, "", "")
            /\ pv' = pv
       ELSE /\ pv' = SyncRows(pv, files)
            /\ \E a \in get_active_prompt_version(SyncRows(pv, files)) :
                 \E r \in LoadedPromptKeys(a, files) :
                   last' = Call("load_active_prompt", 0, r, "", "tuple", 0)
  /\ GetConnection
  /\ UNCHANGED <<files, bids, dbLocked, calls>>
  /\ UNCHANGED board

NextActive ==
  \/ \E k \in Keys, s \in {"testing", "approved"} : CreatePromptVersion(k, s)
  \/ \E k \in Keys : PMSetActivePromptVersion(k)
  \/ \E k \in Keys : ApprovePromptVersion(k)
  \/ SyncPromptVersionsToDb
  \/ PMGetPromptVersions
  \/ LoadActivePrompt

SpecActive == Init /\ [][NextActive]_vars

\* ----- total_bids against the bids table -----

\* Keys a caller may register: a template key, or the key save_uploaded_bid
\* stores in its rows.
LedgerKeys == BidKeys \cup {"uploaded"}

NextTotals ==
  \/ \E k \in BidKeys : SaveBidWithin(MaxLedger, k, "t1")
  \/ SaveUploadedBidWithin(MaxLedger, "my_win", "t1")
  \/ \E i \in IdInputs : UpdateBidOutcome(i, "won", FALSE, FALSE, TRUE, FALSE)
  \/ \E i \in IdInputs : RateBid(i, "good")
  \/ \E i \in IdInputs : SaveFinalBid(i, "t2", "note")
  \/ \E k \in LedgerKeys : RegisterPromptVersion(k, FALSE, FALSE)

SpecTotals == Init /\ [][NextTotals]_vars

\* ----- the seen store: runs and endpoints -----

ledger == <<pv, files, bids, dbLocked, schema, calls>>

\* ----- actions: command-line runs and the status endpoint -----

SearchJobs(filtered, output_json) ==
  LET run == SearchLoop(seen, filtered, <<>>)
  IN /\ seen' = run.seen
     /\ shortlist' = WriteShortlist(shortlist, output_json, run.new_projects)
     /\ last' = [Call("search_jobs", 0, "", "", "0", Len(run.new_projects))
                   EXCEPT !.rows = run.new_projects]
     /\ UNCHANGED <<ledger, refresh_in_progress, requests>>

\* The search request to the Freelancer API fails: the run ends before it
\* writes anything.
SearchJobsFails ==
  /\ last' = Raised("search_jobs", 0, "", "")
  /\ UNCHANGED <<ledger, board>>

AnalyzeJobs(max_projects, ai_result) ==
  /\ IF ~shortlist.exists
       THEN /\ last' = Raised("analyze_jobs", 0, "", "")
            /\ seen' = seen
       ELSE LET run == AnalyzeLoop(seen, shortlist.projects, 0, max_projects, ai_result)
            IN /\ seen' = run.seen
               /\ last' = Call("analyze_jobs", 0, "", "", "0", run.count)
  /\ UNCHANGED <<ledger, shortlist, refresh_in_progress, requests>>

\* POST /api/project/{id}/status
UpdateProjectStatus(project_id, status, reason) ==
  /\ seen' = PutEntry(seen, project_id,
                      [ExistingEntry(seen, project_id) EXCEPT
                         !.status = status,
                         !.rejection_reason = @ \/ reason])
  /\ last' = Call("update_project_status", project_id, "", status, "ok", 0)
  /\ UNCHANGED <<ledger, shortlist, refresh_in_progress, requests>>

NextSeen ==
  \/ \E f \in SearchResults, o \in BOOLEAN : SearchJobs(f, o)
  \/ SearchJobsFails
  \/ \E n \in MaxProjectsArgs, a \in AnalysisResults : AnalyzeJobs(n, a)
  \/ \E p \in Projects : \/ UpdateProjectStatus(p, "rejected", TRUE)
                         \/ UpdateProjectStatus(p, "bid_posted", FALSE)

SpecSeen == Init /\ [][NextSeen]_vars

\* Search runs next to the other writers of the seen store.
NextSearch ==
  \/ \E f \in SearchResults : SearchJobs(f, TRUE)
  \/ SearchJobsFails
  \/ \E n \in MaxProjectsArgs : AnalyzeJobs(n, "scored")
  \/ \E p \in Projects : UpdateProjectStatus(p, "rejected", TRUE)

SpecSearch == Init /\ [][NextSearch]_vars

\* ----- dashboard.py: POST /api/refresh -----

\* One accepted refresh, run to its end: search_jobs with the preset's
\* shortlist path, then analyze_jobs on that file.  A subprocess that ends
\* with a nonzero return code has written nothing (analyze_jobs also ends so
\* while the file does not exist) and the request is answered with 500.
RefreshCycle(filtered, max_projects, ai_result, search_ok, analyze_ok) ==
  LET search == SearchLoop(seen, filtered, <<>>)
      file == WriteShortlist(shortlist, TRUE, search.new_projects)
      analysis == AnalyzeLoop(search.seen, file.projects, 0, max_projects, ai_result)
  IN /\ ~refresh_in_progress
     /\ IF ~search_ok
          THEN /\ UNCHANGED <<seen, shortlist>>
               /\ last' = Call("refresh", 0, "", "search", "500", 0)
          ELSE /\ shortlist' = file
               /\ IF analyze_ok /\ file.exists
                    THEN /\ seen' = analysis.seen
                         /\ last' = Call("refresh", 0, "", "", "200", analysis.count)
                    ELSE /\ seen' = search.seen
                         /\ last' = Call("refresh", 0, "", "analyze", "500", 0)
     /\ UNCHANGED <<ledger, refresh_in_progress, requests>>

SuccessfulCycle ==
  \E f \in SearchResults, n \in MaxProjectsArgs : RefreshCycle(f, n, "scored", TRUE, TRUE)

NextCycle ==
  \/ SuccessfulCycle
  \/ \E f \in SearchResults, n \in MaxProjectsArgs, ok \in BOOLEAN :
       RefreshCycle(f, n, "scored", ok, FALSE)

\* Refresh cycles keep being run, and not every one of them fails.
SpecCycle == Init /\ [][NextCycle]_vars /\ WF_vars(SuccessfulCycle)

\* The handler is a coroutine without an await: the event loop runs it to its
\* end before it takes the next request, and subprocess.run blocks the loop
\* for the time of each subprocess.  A request sent meanwhile waits.
RefreshArrive(r) ==
  /\ requests[r].pc \notin {"queued", "search", "analyze"}
  /\ requests' = [requests EXCEPT
                    ![r] = [pc |-> "queued", arrived_in_progress |-> refresh_in_progress]]
  /\ last' = Call("refresh", 0, r, "", "queued", 0)
  /\ UNCHANGED <<ledger, seen, shortlist, refresh_in_progress>>

\* The loop takes a waiting request: 409 when the flag is set, 400 for an
\* empty preset, else the flag is set and the search subprocess starts.
RefreshStart(r, preset) ==
  /\ requests[r].pc = "queued"
  /\ ~HandlerRunning
  /\ IF refresh_in_progress
       THEN /\ requests' = [requests EXCEPT ![r].pc = "409"]
            /\ UNCHANGED refresh_in_progress
       ELSE IF preset = ""
         THEN /\ requests' = [requests EXCEPT ![r].pc = "400"]
              /\ UNCHANGED refresh_in_progress
         ELSE /\ requests' = [requests EXCEPT ![r].pc = "search"]
              /\ refresh_in_progress' = TRUE
  /\ last' = Call("refresh", 0, r, "", requests'[r].pc, 0)
  /\ UNCHANGED <<ledger, seen, shortlist>>

\* The search subprocess ends: return code 0, or nonzero and nothing written.
RefreshSearch(r, filtered, ok) ==
  /\ requests[r].pc = "search"
  /\ IF ok
       THEN LET search == SearchLoop(seen, filtered, <<>>)
            IN /\ seen' = search.seen
               /\ shortlist' = WriteShortlist(shortlist, TRUE, search.new_projects)
               /\ requests' = [requests EXCEPT ![r].pc = "analyze"]
               /\ UNCHANGED refresh_in_progress
       ELSE /\ requests' = [requests EXCEPT ![r].pc = "500"]
            /\ refresh_in_progress' = FALSE
            /\ UNCHANGED <<seen, shortlist>>
  /\ last' = Call("refresh", 0, r, "", requests'[r].pc, 0)
  /\ UNCHANGED ledger

\* The analyze subprocess ends; the finally clause clears the flag.
RefreshAnalyze(r, max_projects, ai_result, ok) ==
  /\ requests[r].pc = "analyze"
  /\ IF ok /\ shortlist.exists
       THEN /\ seen' = AnalyzeLoop(seen, shortlist.projects, 0, max_projects, ai_result).seen
            /\ requests' = [requests EXCEPT ![r].pc = "200"]
       ELSE /\ requests' = [requests EXCEPT ![r].pc = "500"]
            /\ seen' = seen
  /\ refresh_in_progress' = FALSE
  /\ last' = Call("refresh", 0, r, "", requests'[r].pc, 0)
  /\ UNCHANGED <<ledger, shortlist>>

RefreshResults == {<<>>, <<1>>, <<1, 2>>}

NextRefresh ==
  \/ \E r \in Requests : RefreshArrive(r)
  \/ \E r \in Requests, p \in {"", "x"} : RefreshStart(r, p)
  \/ \E r \in Requests, f \in RefreshResults, ok \in BOOLEAN : RefreshSearch(r, f, ok)
  \/ \E r \in Requests, n \in MaxProjectsArgs, ok \in BOOLEAN :
       RefreshAnalyze(r, n, "scored", ok)

SpecRefresh == Init /\ [][NextRefresh]_vars

\* ======================= properties =======================

Counters == {"total_bids", "won_bids", "engaged_bids", "viewed_bids"}
FunnelStats == {"viewed_bids", "engaged_bids", "won_bids"}
KnownKinds == {"bad", "regular", "good", "winning"}

\* The funnel flag of a bid row that feeds a counter.
FlagOf(row, stat) ==
  CASE stat = "viewed_bids" -> row.was_viewed
    [] stat = "engaged_bids" -> row.was_engaged
    [] stat = "won_bids" -> row.was_won

\* The viewed/engaged/won argument of the outcome update recorded in a call.
ArgOf(call, stat) ==
  CASE stat = "viewed_bids" -> call.flags[1]
    [] stat = "engaged_bids" -> call.flags[2]
    [] stat = "won_bids" -> call.flags[3]

\* C1: in every reachable state at most one prompt-version record has
\* is_active set (register, set-active, approve and sync with any arguments).
C1_AtMostOneActive == Cardinality(ActiveKeys(pv)) <= 1

\* C2: after set_active_prompt_version(B) on a registered key B - in
\* particular right after set_active_prompt_version(A) - B is the only active
\* record and get_active_prompt_version returns B.
C2_SetActiveLeavesOnlyThatKey ==
  (last.op = "set_active_prompt_version" /\ last.key \in DOMAIN pv)
    => /\ last.ret = "True"
       /\ ActiveKeys(pv) = {last.key}
       /\ get_active_prompt_version(pv) = {last.key}

C2_Witness ==
  /\ last.op = "set_active_prompt_version" /\ last.key = "B"
  /\ DOMAIN pv = {"A", "B"}
  /\ ~pv["A"].is_active /\ pv["B"].is_active

\* C3: update_bid_outcome on an existing bid returns True and raises each of
\* viewed_bids, engaged_bids, won_bids of the owning prompt version by one
\* exactly when the new flag is true and the stored flag was false, by zero
\* otherwise; the counters of every other prompt version stay as they were.
C3_OutcomeCountersRatchet ==
  [][(last'.op = "update_bid_outcome" /\ last'.id \in DOMAIN bids)
       => /\ last'.ret = "True"
          /\ DOMAIN pv' = DOMAIN pv
          /\ \A k \in DOMAIN pv : \A s \in FunnelStats :
               pv'[k][s] = pv[k][s] +
                 (IF /\ k = bids[last'.id].prompt_version
                     /\ ArgOf(last', s) /\ ~FlagOf(bids[last'.id], s)
                    THEN 1 ELSE 0)]_vars

C3_Witness ==
  /\ last.op = "update_bid_outcome" /\ last.ret = "True"
  /\ last.flags = <<FALSE, FALSE, TRUE>>
  /\ "A" \in DOMAIN pv
  /\ bids[last.id].prompt_version = "A"
  /\ pv["A"].won_bids = 2 /\ pv["A"].viewed_bids = 1 /\ pv["A"].engaged_bids = 0

\* C4: no step lowers any of the four counters of a prompt version, and an
\* update_bid_outcome that passes false for a flag stored as true stores false
\* and leaves that counter unchanged.
C4_CountersNeverDecrease ==
  [][/\ \A k \in DOMAIN pv :
          k \in DOMAIN pv' /\ \A s \in Counters : pv'[k][s] >= pv[k][s]
     /\ (last'.op = "update_bid_outcome" /\ last'.ret = "True")
          => \A s \in FunnelStats :
               (FlagOf(bids[last'.id], s) /\ ~ArgOf(last', s))
                 => /\ ~FlagOf(bids'[last'.id], s)
                    /\ \A k \in DOMAIN pv : pv'[k][s] = pv[k][s]]_vars

C4_Witness ==
  /\ last.op = "update_bid_outcome" /\ last.ret = "True"
  /\ last.flags = <<FALSE, FALSE, FALSE>>
  /\ Len(bids) = 1 /\ bids[1].prompt_version = "A"
  /\ "A" \in DOMAIN pv
  /\ pv["A"].won_bids = 1 /\ pv["A"].viewed_bids = 1 /\ pv["A"].total_bids = 1

\* C5: once viewed, engaged or won is true on a bid record, no later
\* operation leaves that flag false.
C5_FlagsMonotonic ==
  [][\A i \in DOMAIN bids : \A s \in FunnelStats :
       FlagOf(bids[i], s) => FlagOf(bids'[i], s)]_vars

\* C6: rate_bid on an existing bid sets the rating to -5, 0, 5 for 'bad',
\* 'regular', 'good' and to the previous rating plus 10, with the won flag
\* true, for 'winning'; the value returned is the rating now stored.
C6_RateBidStoresAndReturnsRating ==
  [][(last'.op = "rate_bid" /\ last'.id \in DOMAIN bids /\ last'.kind \in KnownKinds)
       => /\ last'.ret = "int"
          /\ last'.val = bids'[last'.id].rating
          /\ last'.kind = "bad" => bids'[last'.id].rating = 0 - 5
          /\ last'.kind = "regular" => bids'[last'.id].rating = 0
          /\ last'.kind = "good" => bids'[last'.id].rating = 5
          /\ last'.kind = "winning"
               => /\ bids'[last'.id].rating = bids[last'.id].rating + 10
                  /\ bids'[last'.id].was_won]_vars

\* C7: rate_bid 'winning' on a bid whose won flag is false raises the owning
\* version's won_bids by one and sets won true; on a bid already won it
\* leaves won_bids unchanged and adds a further 10 to the rating.
C7_WinningCountsOnce ==
  [][(last'.op = "rate_bid" /\ last'.id \in DOMAIN bids /\ last'.kind = "winning")
       => LET old == bids[last'.id]
              new == bids'[last'.id]
              k == old.prompt_version
          IN IF ~old.was_won
               THEN /\ new.was_won
                    /\ k \in DOMAIN pv => pv'[k].won_bids = pv[k].won_bids + 1
               ELSE /\ new.rating = old.rating + 10
                    /\ \A j \in DOMAIN pv : pv'[j].won_bids = pv[j].won_bids]_vars

\* C8: rate_bid with a kind outside bad/regular/good/winning returns None and
\* changes no bid record and no prompt-version record.
C8_UnknownKindRejected ==
  [][(last'.op = "rate_bid" /\ last'.kind \notin KnownKinds)
       => /\ last'.ret = "None"
          /\ bids' = bids
          /\ pv' = pv]_vars

C8_Witness ==
  /\ last.op = "rate_bid" /\ last.kind = "excellent" /\ last.ret = "None"
  /\ last.id \in DOMAIN bids
  /\ bids[last.id].rating = 5
  /\ ~dbLocked

\* C9: every bid record's rating is b + 10*k with b in {-5, 0, 5} and k >= 0,
\* imported records included.
C9_RatingOnGrid ==
  \A i \in DOMAIN bids :
    \E b \in {0 - 5, 0, 5} : \E k \in 0..(bids[i].rating + 5) :
      bids[i].rating = b + 10 * k

C9_Witness ==
  \E i \in DOMAIN bids :
    /\ bids[i].is_uploaded /\ bids[i].upload_source = "my_win"
    /\ bids[i].rating = 25
    /\ last.op = "rate_bid" /\ last.id = i

\* C10: save_bid returns the new bid's id and stores the bid; it raises
\* total_bids of the version with the bid's key by one when that key is
\* registered, creates no prompt-version record, and changes no other counter.
C10_SaveBidCountsTotalOnly ==
  [][(last'.op = "save_bid")
       => /\ last'.ret = "int"
          /\ Len(bids') = Len(bids) + 1
          /\ last'.val = Len(bids')
          /\ SubSeq(bids', 1, Len(bids)) = bids
          /\ bids'[Len(bids')].prompt_version = last'.key
          /\ DOMAIN pv' = DOMAIN pv
          /\ \A k \in DOMAIN pv : \A s \in Counters :
               pv'[k][s] = pv[k][s] +
                 (IF k = last'.key /\ s = "total_bids" THEN 1 ELSE 0)]_vars

C10_Witness ==
  /\ last.op = "save_bid" /\ last.key = "A" /\ last.ret = "int"
  /\ DOMAIN pv = {"A", "B"}
  /\ pv["A"].total_bids = 1 /\ pv["B"].total_bids = 0

\* The stored success_rate n/d of a row with total_bids > 0 equals
\* min(1, (3*won + 2*engaged + viewed) / (3*total)) of its counters.
RateMatchesCounters(row) ==
  LET num == 3 * row.won_bids + 2 * row.engaged_bids + row.viewed_bids
      den == 3 * row.total_bids
      n == row.success_rate[1]
      d == row.success_rate[2]
  IN IF num >= den THEN n = d ELSE n * den = num * d

\* C11: right after update_bid_outcome on an existing bid, or rate_bid
\* 'winning' on a not-yet-won bid, whose prompt version is registered with
\* total_bids > 0, the stored success_rate of that version equals
\* min(1, (3*won_bids + 2*engaged_bids + viewed_bids) / (3*total_bids)).
C11_SuccessRateMatchesCounters ==
  [][(/\ last'.id \in DOMAIN bids
      /\ \/ last'.op = "update_bid_outcome"
         \/ last'.op = "rate_bid" /\ last'.kind = "winning" /\ ~bids[last'.id].was_won
      /\ bids[last'.id].prompt_version \in DOMAIN pv'
      /\ pv'[bids[last'.id].prompt_version].total_bids > 0)
       => RateMatchesCounters(pv'[bids[last'.id].prompt_version])]_vars

\* C12: the recomputation that ends update_bid_outcome, for a bid whose prompt
\* version has total_bids = 0 (registered after the bid was saved) or is not
\* registered, raises nothing and leaves the stored success_rate as it was,
\* at 0.0.
C12_NoBidsNoRecompute ==
  [][(last'.op = "update_bid_outcome" /\ last'.id \in DOMAIN bids)
       => LET k == bids[last'.id].prompt_version
          IN /\ k \notin DOMAIN pv => (last'.ret = "True" /\ pv' = pv)
             /\ (k \in DOMAIN pv /\ pv[k].total_bids = 0)
                  => /\ last'.ret = "True"
                     /\ pv'[k].total_bids = 0
                     /\ pv'[k].success_rate = pv[k].success_rate
                     /\ pv'[k].success_rate = <<0, 1>>]_vars

C12_Witness ==
  /\ last.op = "update_bid_outcome" /\ last.ret = "True"
  /\ last.flags = <<TRUE, TRUE, TRUE>>
  /\ "A" \in DOMAIN pv
  /\ pv["A"].total_bids = 0 /\ pv["A"].won_bids = 1
  /\ pv["A"].success_rate = <<0, 1>>

IdOps == {"get_bid", "update_bid_outcome", "save_final_bid", "rate_bid"}

\* C13: get_bid, update_bid_outcome, save_final_bid and rate_bid called with
\* an id that no record has return None (get_bid, rate_bid) or False without
\* raising and leave every bid record and every prompt-version row as it was.
C13_MissingIdFails ==
  [][(last'.op \in IdOps /\ last'.id \notin DOMAIN bids)
       => /\ last'.ret = (IF last'.op \in {"get_bid", "rate_bid"} THEN "None" ELSE "False")
          /\ bids' = bids
          /\ pv' = pv]_vars

C13_Witness ==
  /\ last.op = "save_final_bid" /\ last.id = 2 /\ last.ret = "False"
  /\ Len(bids) = 1 /\ dbLocked
  /\ bids[1].final_bid_text = NULL
  /\ "A" \in DOMAIN pv /\ pv["A"].total_bids = 1

\* C14: after every successful save_final_bid(id, text, feedback), a repeated
\* one included, user_edits is present exactly when text differs from the
\* record's original bid_text and then holds that original and the supplied
\* text; no operation ever changes the bid_text of a record.
C14_DiffAgainstOriginal ==
  [][/\ \A i \in DOMAIN bids : bids'[i].bid_text = bids[i].bid_text
     /\ (last'.op = "save_final_bid" /\ last'.ret = "True")
          => LET original == bids[last'.id].bid_text
                 row == bids'[last'.id]
             IN /\ row.final_bid_text = last'.text
                /\ (row.user_edits # <<>>) <=> (last'.text # original)
                /\ row.user_edits # <<>> => row.user_edits = <<original, last'.text>>]_vars

C14_Witness ==
  /\ last.op = "save_final_bid" /\ last.ret = "True" /\ last.text = "t2"
  /\ bids[last.id].bid_text = "t1"
  /\ bids[last.id].final_bid_text = "t2"
  /\ bids[last.id].user_edits = <<"t1", "t2">>

\* C18: against a store that has both tables and the rating and upload
\* columns, schema setup (run by every ledger operation through its
\* connection) leaves the schema as it is; an operation that does nothing
\* else (get_bid) never raises and leaves every row as it is; setup applied
\* twice gives what it gives applied once.
C18_EnsureTablesIdempotent ==
  [][/\ EnsureTables(EnsureTables(schema).schema) = EnsureTables(schema)
     /\ schema = CurrentSchema
          => /\ schema' = CurrentSchema
             /\ ~EnsureTables(schema).raised
             /\ last'.op = "get_bid"
                  => (last'.ret # "raised" /\ bids' = bids /\ pv' = pv)]_vars

C18_Witness ==
  /\ last.op = "get_bid" /\ last.ret = "row"
  /\ schema = CurrentSchema
  /\ Len(bids) = 1 /\ bids[1].final_bid_text = "t2"

\* C15: the record save_uploaded_bid inserts has outcome 'won', the won flag
\* and is_uploaded true, and rating 20 when upload_source is
\* 'other_freelancer', 15 for every other upload_source.
C15_UploadedBidRecord ==
  [][(last'.op = "save_uploaded_bid" /\ last'.ret = "int")
       => /\ DOMAIN bids' = DOMAIN bids \cup {last'.id}
          /\ last'.id \notin DOMAIN bids
          /\ bids'[last'.id].outcome = "won"
          /\ bids'[last'.id].was_won
          /\ bids'[last'.id].is_uploaded
          /\ bids'[last'.id].upload_source = last'.kind
          /\ bids'[last'.id].rating =
               (IF last'.kind = "other_freelancer" THEN UploadRatingOther ELSE UploadRating)]_vars

C15_Witness ==
  /\ last.op = "save_uploaded_bid" /\ last.id = 2 /\ last.kind = "liked"
  /\ bids[1].upload_source = "other_freelancer" /\ bids[1].rating = UploadRatingOther
  /\ bids[2].upload_source = "liked" /\ bids[2].rating = UploadRating
  /\ bids[2].was_won /\ bids[2].is_uploaded /\ bids[2].outcome = "won"

\* C16: the record save_bid creates has the viewed, engaged, won and
\* high-rank flags false, rating 0 and outcome 'pending', whatever the
\* prompt version and text it is given.
C16_SaveBidDefaults ==
  [][(last'.op = "save_bid" /\ last'.ret = "int")
       => /\ last'.id \notin DOMAIN bids
          /\ DOMAIN bids' = DOMAIN bids \cup {last'.id}
          /\ ~bids'[last'.id].was_viewed
          /\ ~bids'[last'.id].was_engaged
          /\ ~bids'[last'.id].was_won
          /\ ~bids'[last'.id].was_high_rank
          /\ bids'[last'.id].rating = 0
          /\ bids'[last'.id].outcome = "pending"]_vars

C16_Witness ==
  /\ last.op = "save_bid" /\ last.ret = "int" /\ last.id = 1
  /\ bids[1].bid_text = "t2"
  /\ bids[1].outcome = "pending" /\ bids[1].rating = 0
  /\ ~bids[1].was_viewed /\ ~bids[1].was_engaged /\ ~bids[1].was_won
  /\ ~bids[1].was_high_rank

\* C17: when two update_bid_outcome calls with won = true for the same bid,
\* whose won flag is false and whose prompt version is registered, have both
\* returned - their steps interleaved in any order - won_bids of that version
\* is exactly one higher than before the calls, and the stored success_rate
\* matches the counters.
C17_ConcurrentWinCountsOnce ==
  \A p \in Procs, q \in Procs :
    (/\ p # q
     /\ calls[p].pc = "done" /\ calls[q].pc = "done"
     /\ calls[p].prev # <<>> /\ calls[q].prev # <<>>
     /\ calls[p].id = calls[q].id
     /\ ~calls[p].prev[4]
     /\ calls[p].base >= 0 /\ calls[p].base <= calls[q].base)
      => LET row == pv[calls[p].prev[1]]
         IN /\ row.won_bids = calls[p].base + 1
            /\ row.total_bids > 0 => RateMatchesCounters(row)

\* The result of the last query has at most limit rows, each rated at least
\* min_rating, and every row stands before the rows that follow it in the
\* given order.
QueryResultOrdered(Before(_, _, _)) ==
  LET rows == last.rows
  IN /\ Len(rows) <= last.flags[2]
     /\ \A n \in DOMAIN rows :
          /\ rows[n] \in DOMAIN bids
          /\ bids[rows[n]].rating >= last.flags[1]
     /\ \A m \in DOMAIN rows, n \in DOMAIN rows :
          m < n => Before(bids, rows[m], rows[n])

\* C19 (as stated): get_high_rated_bids(min_rating, limit) returns at most
\* limit records, all with rating >= min_rating, ordered by rating descending
\* and, among records of equal rating, by creation time descending.
C19_OrderedByRatingThenTime ==
  last.op = "get_high_rated_bids" => QueryResultOrdered(PrecedesByRatingAndTime)

\* C19 (amended): get_high_rated_bids(min_rating, limit) with limit >= 0
\* returns at most limit records, all with rating >= min_rating, ordered by
\* rating descending; among records of equal rating the won ones come first,
\* and among records of equal rating and won flag the later created first.
C19_OrderedByRatingWonThenTime ==
  last.op = "get_high_rated_bids"
    => QueryResultOrdered(LAMBDA t, i, j :
         \/ t[i].rating > t[j].rating
         \/ t[i].rating = t[j].rating /\ t[i].was_won /\ ~t[j].was_won
         \/ /\ t[i].rating = t[j].rating /\ t[i].was_won = t[j].was_won
            /\ CreatedAt(i) > CreatedAt(j))

C19_Witness ==
  /\ last.op = "get_high_rated_bids" /\ last.flags = <<RatingGood, 2>>
  /\ last.rows = <<1, 2>>
  /\ bids[1].rating = RatingGood /\ bids[2].rating = RatingGood
  /\ bids[1].was_won /\ ~bids[2].was_won

PromptOps == {"register_prompt_version", "set_active_prompt_version",
              "approve_prompt_version", "sync_prompt_versions_to_db"}

\* C20: register_prompt_version (for a new or an already registered key),
\* set_active_prompt_version, approve_prompt_version and
\* sync_prompt_versions_to_db leave the four counters and the success_rate of
\* every existing prompt-version row as they were.
C20_PromptOpsKeepStatistics ==
  [][last'.op \in PromptOps
       => \A k \in DOMAIN pv :
            /\ k \in DOMAIN pv'
            /\ \A c \in Counters : pv'[k][c] = pv[k][c]
            /\ pv'[k].success_rate = pv[k].success_rate]_vars

C20_Witness ==
  /\ last.op = "sync_prompt_versions_to_db" /\ last.val = 2
  /\ DOMAIN pv = {"A", "B"}
  /\ pv["A"].total_bids = 1 /\ pv["A"].won_bids = 1
  /\ pv["A"].success_rate = <<1, 1>>

\* Bid rows with the given ratings.
RowsRated(ratings) ==
  [i \in DOMAIN ratings |-> [NewBidRow("A", "t1") EXCEPT !.rating = ratings[i]]]

\* C21 (as stated): avg_rating of get_learning_stats is the mean of the
\* nonzero ratings, 0 when there is none (reported value v in tenths:
\* v * count = 10 * sum).
C21_AvgRatingIsMean ==
  last.op = "get_learning_stats"
    => LET rs == NonZeroRatings(bids)
       IN IF rs = <<>> THEN last.val = 0
          ELSE last.val * Len(rs) = 10 * SeqSum(rs)

\* C21 (amended): avg_rating of get_learning_stats is the mean of the nonzero
\* ratings rounded to one decimal place, 0 when there is none; for ratings
\* {0, 0, 5, -5, 10} it is 3.3.
C21_AvgRatingIsMeanRoundedToTenth ==
  /\ AvgRatingTenths(RowsRated(<<0, 0, 5, 0 - 5, 10>>)) = 33
  /\ last.op = "get_learning_stats"
       => LET rs == NonZeroRatings(bids)
              d == 10 * SeqSum(rs) - last.val * Len(rs)
          IN IF rs = <<>> THEN last.val = 0
             ELSE 2 * d <= Len(rs) /\ 2 * (0 - d) <= Len(rs)

C21_Witness ==
  /\ last.op = "get_learning_stats" /\ last.val = 17
  /\ Len(bids) = 3
  /\ \E i \in DOMAIN bids : bids[i].rating = RatingBad

\* C22: every rate_bid(id, 'winning') on an existing bid whose won flag is
\* false, started on a store no other connection holds locked, runs to
\* completion: it does not raise, leaves no write lock behind, and the rating
\* raised by 10 and the won flag are stored.
C22_WinningRatingCompletes ==
  [][(/\ last'.op = "rate_bid" /\ last'.kind = "winning"
      /\ last'.id \in DOMAIN bids
      /\ ~bids[last'.id].was_won
      /\ ~dbLocked)
       => /\ last'.ret # "raised"
          /\ ~dbLocked'
          /\ bids'[last'.id].was_won
          /\ bids'[last'.id].rating = bids[last'.id].rating + RatingWinning]_vars

\* C23: in every state reached by sequential ledger operations, each prompt
\* version with total_bids > 0 has a stored success_rate equal to
\* min(1, (3*won_bids + 2*engaged_bids + viewed_bids) / (3*total_bids)) of its
\* current counters - also right after save_bid has raised total_bids.
C23_StoredRateAlwaysCurrent ==
  \A k \in DOMAIN pv : pv[k].total_bids > 0 => RateMatchesCounters(pv[k])

\* C25: in every state reached by sequential ledger operations, each prompt
\* version has won_bids, engaged_bids and viewed_bids at most total_bids.
C25_FunnelCountersWithinTotal ==
  \A k \in DOMAIN pv : \A s \in FunnelStats : pv[k][s] <= pv[k].total_bids

\* C24: when prompt_manager.set_active_prompt_version(k) has just returned
\* True, a following sync_prompt_versions_to_db, get_prompt_versions or
\* load_active_prompt call leaves k the active version, and load_active_prompt
\* returns k.
SyncingOps == {"sync_prompt_versions_to_db", "pm_get_prompt_versions",
               "load_active_prompt"}

C24_ChosenVersionStaysActive ==
  [][(/\ last.op = "pm_set_active_prompt_version"
      /\ last.ret = "True"
      /\ last'.op \in SyncingOps
      /\ last'.ret # "raised")
     => /\ get_active_prompt_version(pv') = {last.key}
        /\ (last'.op = "load_active_prompt" => last'.key = last.key)]_vars

\* The number of bid records save_bid created with key k.
SavedWith(t, k) ==
  Cardinality({i \in DOMAIN t : t[i].prompt_version = k /\ ~t[i].is_uploaded})

\* C26: a prompt-version record starts with total_bids 0, and every step keeps
\* total_bids equal to the number of bids save_bid created with the record's
\* key once it is equal (so it is equal for every version registered before a
\* bid used its key); save_uploaded_bid, update_bid_outcome, rate_bid and
\* save_final_bid leave every total_bids as it was.
C26_TotalBidsCountsSavedBids ==
  [][/\ \A k \in DOMAIN pv' \ DOMAIN pv :
          SavedWith(bids, k) = 0 => pv'[k].total_bids = SavedWith(bids', k)
     /\ \A k \in DOMAIN pv :
          pv[k].total_bids = SavedWith(bids, k)
            => k \in DOMAIN pv' /\ pv'[k].total_bids = SavedWith(bids', k)
     /\ last'.op \in {"save_uploaded_bid", "update_bid_outcome", "rate_bid",
                      "save_final_bid"}
          => \A k \in DOMAIN pv :
               k \in DOMAIN pv' /\ pv'[k].total_bids = pv[k].total_bids]_vars

C26_Witness ==
  /\ last.op = "save_uploaded_bid" /\ last.ret = "int"
  /\ DOMAIN pv = LedgerKeys
  /\ pv["A"].total_bids = 1 /\ SavedWith(bids, "A") = 1
  /\ pv["uploaded"].total_bids = 0 /\ SavedWith(bids, "uploaded") = 0
  /\ \E i \in DOMAIN bids : bids[i].is_uploaded

\* The ids of a project list.
Ids(list) == {list[i] : i \in DOMAIN list}

\* C27: a search_jobs or analyze_jobs run leaves the seen-store entry of every
\* project whose status is 'rejected' or 'bid_posted' as it was.
C27_ArchivedEntryKept ==
  [][last'.op \in {"search_jobs", "analyze_jobs"}
       => \A p \in DOMAIN seen :
            seen[p].status \in ArchivedStatuses
              => p \in DOMAIN seen' /\ seen'[p] = seen[p]]_vars

\* C28: the projects a search_jobs run shortlists are no keys of the seen store
\* before the run, are keys of it after the run, and are listed once; and no
\* step removes a key from the seen store, so no later run shortlists them.
C28_ShortlistedOnce ==
  [][/\ DOMAIN seen \subseteq DOMAIN seen'
     /\ (last'.op = "search_jobs" /\ last'.ret # "raised")
          => /\ Ids(last'.rows) \cap DOMAIN seen = {}
             /\ Ids(last'.rows) \subseteq DOMAIN seen'
             /\ Cardinality(Ids(last'.rows)) = Len(last'.rows)
             /\ DOMAIN seen' = DOMAIN seen \cup Ids(last'.rows)]_vars

C28_Witness ==
  /\ last.op = "search_jobs" /\ last.rows = <<2>>
  /\ DOMAIN seen = {1, 2}
  /\ seen[1].status = "analyzed" /\ seen[2].status = "seen_only"
  /\ shortlist.projects = <<2>>

\* C29: under repeated refresh cycles every project recorded as 'seen_only'
\* eventually has status 'analyzed'.
C29_SeenOnlyEventuallyAnalyzed ==
  \A p \in Projects :
    (p \in DOMAIN seen /\ seen[p].status = "seen_only")
      ~> (p \in DOMAIN seen /\ seen[p].status = "analyzed")

\* C30: a refresh request that arrived while _refresh_in_progress was set is
\* answered with 409 when the server handles it.
C30_RequestDuringRefreshRejected ==
  [][\A r \in Requests :
       (/\ requests[r].pc = "queued"
        /\ requests[r].arrived_in_progress
        /\ requests'[r].pc # "queued")
         => requests'[r].pc = "409"]_vars

====
